---- MODULE Spec2Model ----
(***************************************************************************)
(* Model of the dynamic CRUD API of jotap1101/dynamic-api:                 *)
(*   apps/core/utils.py        get_model_from_path, get_database_for_model *)
(*   apps/core/views.py        DynamicModelViewSet                         *)
(*   apps/core/serializers.py  DynamicModelSerializer                      *)
(*   apps/core/urls.py         urlpatterns                                 *)
(*   config/routers.py         DatabaseRouter                              *)
(* The specifications share the state:                                     *)
(*   Spec      one request at a time, the view set invoked with the lookup *)
(*             kwarg it declares (lookup_field = "id") and the query       *)
(*             parameters db / table;                                      *)
(*   SpecConc  two worker threads whose requests interleave at the reads   *)
(*             and writes of the class attribute Meta.model;               *)
(*   SpecUrls  requests that enter through the urlpatterns of core/urls.py;*)
(*   SpecPages list with the paging parameters page and page_size;         *)
(*   SpecAuth  requests with and without a bearer credential;              *)
(*   SpecFaults requests during which storage fails after the checks;      *)
(*   SpecRefs  movies and the genres they refer to by foreign key, with    *)
(*             bodies that carry an "id" key.                              *)
(***************************************************************************)
EXTENDS Naturals, Sequences, FiniteSets, TLC

VARIABLES store, nextId, down, MetaModel, req, resp, pc, loc

vars == <<store, nextId, down, MetaModel, req, resp, pc, loc>>

-----------------------------------------------------------------------------
(* Bounds of the model. *)

\* number of records ever created (uuid4 values handed out)
MaxId == 2

\* absent value: Python None / SQL NULL / missing parameter
NULL == "NULL"

\* threads that handle requests
Workers == {1, 2}

\* sets of databases that can be unreachable during a run
Outages == {{}, {"db2"}}

-----------------------------------------------------------------------------
(* Configuration: databases, registered models, migrations. *)

\* connections.databases
Databases == {"default", "db1", "db2", "db3"}

\* values of the db query parameter that requests carry
DbParams == {"default", "db2", "db3", "invalid_db"}

\* registered models (model._meta.model_name)
Models == {"animal", "genre", "movie", "user"}

\* values of the table query parameter that requests carry
TableParams == {"animal", "Genre", "user", "invalid_model"}

\* model._meta.app_label
AppLabel(model) ==
    CASE model = "animal" -> "app2"
      [] model \in {"genre", "movie"} -> "app3"
      [] OTHER -> "auth"

\* DatabaseRouter.route_app_labels
route_app_labels == [app1 |-> "db1", app2 |-> "db2", app3 |-> "db3"]

\* DatabaseRouter.db_for_write
db_for_write(model) ==
    IF AppLabel(model) \in DOMAIN route_app_labels
    THEN route_app_labels[AppLabel(model)]
    ELSE "default"

\* allow_migrate that lets every app migrate into every database
allow_migrate_everywhere(db, app_label) == db \in Databases

\* DatabaseRouter.allow_migrate
allow_migrate(db, app_label) ==
    IF app_label \in DOMAIN route_app_labels
    THEN db = route_app_labels[app_label]
    ELSE db = "default"

\* the table of a model exists in the databases its app was migrated to
TableExists(db, model) == allow_migrate(db, AppLabel(model))

\* auth_apps of get_database_for_model
auth_apps == {"auth", "admin", "sessions", "contenttypes"}

\* str.lower() on the names requests carry
Lower(s) ==
    CASE s = "Genre" -> "genre"
      [] OTHER -> s

-----------------------------------------------------------------------------
(* Schemas of the models, as ModelSerializer with fields = "__all__" sees   *)
(* them (the primary key id is editable=False, hence read only).           *)

Fields(model) ==
    CASE model = "animal" -> {"name", "age", "description"}
      [] model = "genre" -> {"name", "description"}
      [] model = "movie" -> {"title", "description", "release_date", "genre"}
      [] OTHER -> {"username", "password", "email"}

\* fields without null=True / blank=True / default: required on input
Required(model) ==
    CASE model = "animal" -> {"name", "age"}
      [] model = "genre" -> {"name"}
      [] model = "movie" -> {"title", "release_date"}
      [] OTHER -> {"username", "password", "email"}

\* models.IntegerField
IntFields == {"age"}

\* no field is read only
ReadOnlyFields_none == {}

\* editable=False: the primary key id is a read-only field of the serializer
ReadOnlyFields == {"id"}

\* models.DateField
DateFields == {"release_date"}

\* wire values that serializers.DateField parses
Dates == {"2025-01-01"}

\* models.ForeignKey: the entity a field of a model refers to
RefFields(model) ==
    IF model = "movie" THEN [genre |-> "genre"] ELSE [f \in {} |-> ""]

\* the fields of all models that are foreign keys
AllRefFields == {"genre"}

\* the internal value of a null reference (primary keys start at 1)
NullRef == 0

\* unique=True
UniqueFields(model) ==
    IF model = "user" THEN {"username", "email"} ELSE {}

\* wire values are strings; serializers.IntegerField parses the numerals
IntOf == ("1" :> 1) @@ ("2" :> 2)

\* serializers.CharField trims surrounding whitespace (trim_whitespace)
Strip(s) ==
    CASE s = "b " -> "b"
      [] OTHER -> s

\* request bodies
Payloads ==
    { [name |-> "a", age |-> "1"],
      [name |-> "b ", age |-> "2"],
      [name |-> "a", age |-> "x"],
      [age |-> "2"],
      [username |-> "a", password |-> "a", email |-> "a@x"] }

\* an event of a request's trace of storage accesses and checks
Ev(e, db) == [e |-> e, db |-> db]

StorageEvents == {"connect", "table", "read", "write"}

-----------------------------------------------------------------------------
(* apps/core/utils.py *)

\* cursor.execute("SELECT 1") succeeds on a reachable database
ProbeOk(db) == db \notin down

\* the loop over apps.get_models(): first model whose lowered name matches
FindModel(model_name) ==
    IF Lower(model_name) \in Models THEN Lower(model_name) ELSE NULL

Found(model, log) == [ok |-> TRUE, model |-> model, code |-> "ok", log |-> log]

NotFound(code, log) == [ok |-> FALSE, model |-> NULL, code |-> code, log |-> log]

get_model_from_path(database_name, model_name) ==
    IF database_name \notin Databases
    THEN NotFound("db_not_configured", <<>>)
    ELSE IF ~ProbeOk(database_name)
    THEN NotFound("cannot_connect", <<Ev("connect", database_name)>>)
    ELSE LET target_model == FindModel(model_name)
             probed == <<Ev("connect", database_name)>>
         IN  IF target_model = NULL
             THEN NotFound("model_not_found", probed)
             ELSE LET log == probed \o <<Ev("resolve", database_name),
                                         Ev("table", database_name)>>
                  IN  IF ~TableExists(database_name, target_model)
                      THEN NotFound("table_missing", log)
                      ELSE Found(target_model, log)

Allowed(db, log) == [ok |-> TRUE, db |-> db, log |-> log]

Denied(log) == [ok |-> FALSE, db |-> NULL, log |-> log]

get_database_for_model(model, database_name) ==
    IF database_name \notin Databases
    THEN Denied(<<>>)
    ELSE IF AppLabel(model) \in auth_apps
    THEN IF database_name # "default"
         THEN Denied(<<>>)
         ELSE Allowed("default", <<Ev("authorize", "default")>>)
    ELSE IF ~ProbeOk(database_name)
    THEN Denied(<<Ev("connect", database_name)>>)
    ELSE Allowed(database_name,
                 <<Ev("connect", database_name), Ev("authorize", database_name)>>)

-----------------------------------------------------------------------------
(* Requests, responses, records. *)

\* a stored row: the database it lives in, its model, primary key, columns
Row(db, model, id, vals) == [db |-> db, model |-> model, id |-> id, vals |-> vals]

\* a request to the view set: the action, the query parameters db and table
\* ("" when absent), the URL kwargs and the body
Request(op, db, table, kw, data) ==
    [op |-> op, db |-> db, table |-> table, kw |-> kw, data |-> data]

NoKwargs == [k \in {} |-> 0]

NoData == [k \in {} |-> ""]

NoReq == Request("none", "", "", NoKwargs, NoData)

\* a response: HTTP status, error code, the fields named in a 400 body, the
\* serialized records, and the request's trace of checks and storage accesses
Response(status, code, errors, data, log) ==
    [status |-> status, code |-> code, errors |-> errors, data |-> data, log |-> log]

NoResp == Response(0, "none", {}, <<>>, <<>>)

NoLoc == [model |-> NULL, inst |-> <<>>, log |-> <<>>, fm |-> NULL]

\* rows of a model in a database in descending order of primary key
RECURSIVE OrderById_reversed(_)
OrderById_reversed(rows) ==
    IF rows = {} THEN <<>>
    ELSE LET first == CHOOSE r \in rows : \A o \in rows : r.id >= o.id
         IN  <<first>> \o OrderById_reversed(rows \ {first})

\* rows of a model in a database, ascending by primary key (order_by("id"))
RECURSIVE OrderById(_)
OrderById(rows) ==
    IF rows = {} THEN <<>>
    ELSE LET first == CHOOSE r \in rows : \A o \in rows : r.id <= o.id
         IN  <<first>> \o OrderById(rows \ {first})

-----------------------------------------------------------------------------
(* apps/core/views.py: DynamicModelViewSet *)

\* initial() that stops at the first missing parameter
initial_first_only(r) ==
    IF r.db = "" THEN {"db"} ELSE IF r.table = "" THEN {"table"} ELSE {}

\* initial(): the names of the required query parameters that are missing
initial(r) ==
    (IF r.db = "" THEN {"db"} ELSE {}) \cup (IF r.table = "" THEN {"table"} ELSE {})

QuerysetFailed(code, log) ==
    [ok |-> FALSE, code |-> code, model |-> NULL, db |-> NULL, log |-> log]

\* get_queryset() once get_database_for_model() has answered a
Authorized(m, a) ==
    IF ~a.ok
    THEN QuerysetFailed("internal_error", m.log \o a.log)
    ELSE [ok |-> TRUE, code |-> "ok", model |-> m.model, db |-> a.db,
          log |-> m.log \o a.log]

\* get_queryset() once get_model_from_path() has answered m
Resolved(r, m) ==
    IF ~m.ok
    THEN QuerysetFailed("not_found", m.log)
    ELSE Authorized(m, get_database_for_model(m.model, r.db))

\* get_queryset(): resolve the model, authorize the database, bind the
\* queryset; every failure is re-raised as NotFound
get_queryset(r) == Resolved(r, get_model_from_path(r.db, r.table))

\* model.objects.using(db).all(): the rows of the model's table in db
Queryset(st, q) == {row \in st : row.db = q.db /\ row.model = q.model}

\* get_serializer(), up to the call of the serializer class: resolves the
\* model again; its NotFound is not caught
get_serializer(r) == get_model_from_path(r.db, r.table)

-----------------------------------------------------------------------------
(* apps/core/serializers.py: DynamicModelSerializer, with the fields that   *)
(* ModelSerializer derives from Meta.model.                                *)

\* a field that accepts every wire value
ValidValue_untyped(f, v) == TRUE

\* a field accepts a wire value
ValidValue(f, v) ==
    CASE f \in IntFields -> v \in DOMAIN IntOf
      [] f \in DateFields -> v \in Dates
      [] f \in AllRefFields -> v = NULL \/ v \in DOMAIN IntOf
      [] OTHER -> Strip(v) # ""

\* the internal value of a wire value
ToInternal(f, v) ==
    IF f \in IntFields \cup AllRefFields \cup {"id"}
    THEN IF v \in DOMAIN IntOf THEN IntOf[v] ELSE 0
    ELSE Strip(v)

\* UniqueValidator that does not exclude the instance being updated
Taken_by_any(fm, f, v, inst, st) ==
    \E row \in st :
        /\ row.db = db_for_write(fm)
        /\ row.model = fm
        /\ f \in DOMAIN row.vals
        /\ row.vals[f] = ToInternal(f, v)

\* UniqueValidator: another row of the model already holds the value
Taken(fm, f, v, inst, st) ==
    \E row \in st :
        /\ row.db = db_for_write(fm)
        /\ row.model = fm
        /\ f \in DOMAIN row.vals
        /\ row.vals[f] = ToInternal(f, v)
        /\ (Len(inst) = 0 \/ row.id # inst[1].id)

\* a related field that does not look the target up
Dangling_unchecked(fm, f, v, database, st) == FALSE

\* PrimaryKeyRelatedField: field.queryset.using(self.database) holds no
\* record of the target entity with the primary key
Dangling(fm, f, v, database, st) ==
    /\ v \in DOMAIN IntOf
    /\ \A row \in st :
          ~(row.db = database /\ row.model = RefFields(fm)[f] /\ row.id = IntOf[v])

\* the fields of the body in error: required and absent, of the wrong type,
\* not unique, or a reference to a record that does not exist
FieldErrors(fm, data, partial, inst, st, database) ==
    (IF partial THEN {} ELSE Required(fm) \ DOMAIN data)
        \cup {f \in DOMAIN data \cap Fields(fm) :
                  \/ ~ValidValue(f, data[f])
                  \/ f \in UniqueFields(fm) /\ Taken(fm, f, data[f], inst, st)
                  \/ f \in DOMAIN RefFields(fm)
                        /\ Dangling(fm, f, data[f], database, st)}

\* to_internal_value(): the fields in error and the validated data; the
\* fields are those of fm, the model found in Meta.model when they were built
to_internal_value(fm, data, partial, inst, st, database) ==
    [errors |-> FieldErrors(fm, data, partial, inst, st, database),
     validated |-> [f \in {g \in DOMAIN data :
                                g \in (Fields(fm) \cup {"id"}) \ ReadOnlyFields}
                       |-> ToInternal(f, data[f])]]

\* the column value of a field that create() was not given
Default(f) ==
    CASE f = "description" -> NULL
      [] f \in AllRefFields -> NullRef
      [] OTHER -> ""

NotSaved(log) == [ok |-> FALSE, rows |-> {}, log |-> log]

\* create(): Meta.model.objects.using(self.database).create(**validated_data);
\* meta is Meta.model as read at this point
create(meta, database, validated, id) ==
    IF ~(DOMAIN validated \subseteq Fields(meta) \cup {"id"})
    THEN NotSaved(<<>>)
    ELSE IF ~TableExists(database, meta)
    THEN NotSaved(<<Ev("write", database)>>)
    ELSE IF (Fields(meta) \cap IntFields) \ DOMAIN validated # {}
    THEN NotSaved(<<Ev("write", database)>>)
    ELSE [ok |-> TRUE,
          rows |-> {Row(database, meta,
                        IF "id" \in DOMAIN validated THEN validated.id ELSE id,
                        [f \in Fields(meta) |->
                            IF f \in DOMAIN validated THEN validated[f]
                            ELSE Default(f)])},
          log |-> <<Ev("write", database)>>]

\* update() that resets the fields the body does not supply
update_replacing(instance, validated, database) ==
    IF ~TableExists(database, instance.model)
    THEN NotSaved(<<Ev("write", database)>>)
    ELSE [ok |-> TRUE,
          rows |-> {Row(database, instance.model, instance.id,
                        [f \in DOMAIN instance.vals |->
                            IF f \in DOMAIN validated THEN validated[f]
                            ELSE Default(f)])},
          log |-> <<Ev("write", database)>>]

\* update(): setattr for every validated field, then
\* instance.save(using=self.database)
update(instance, validated, database) ==
    IF ~TableExists(database, instance.model)
    THEN NotSaved(<<Ev("write", database)>>)
    ELSE [ok |-> TRUE,
          rows |-> {Row(database, instance.model,
                        IF "id" \in DOMAIN validated THEN validated.id
                        ELSE instance.id,
                        [f \in DOMAIN instance.vals |->
                            IF f \in DOMAIN validated THEN validated[f]
                            ELSE instance.vals[f]])},
          log |-> <<Ev("write", database)>>]

\* Model.save(using=db): the row replaces the row with its primary key
Saved(st, row) ==
    {o \in st : ~(o.db = row.db /\ o.model = row.model /\ o.id = row.id)}
        \cup {row}

\* to_representation(): the primary key and every field of fm
Representable(row, fm) == Fields(fm) \subseteq DOMAIN row.vals

to_representation(row, fm) ==
    [id |-> row.id, vals |-> [f \in Fields(fm) |-> row.vals[f]]]

-----------------------------------------------------------------------------
(* The actions of ModelViewSet, in three phases: Begin runs up to the       *)
(* assignment of Meta.model in DynamicModelSerializer.__init__, the fields  *)
(* are then built from Meta.model, and Finish validates, saves and renders. *)

Done(rsp, st) ==
    [fin |-> TRUE, resp |-> rsp, model |-> NULL, inst |-> <<>>,
     log |-> rsp.log, store |-> st]

Cont(model, inst, log, st) ==
    [fin |-> FALSE, resp |-> NoResp, model |-> model, inst |-> inst,
     log |-> log, store |-> st]

Fault(status, code, log) == Response(status, code, {}, <<>>, log)

NoObject(status, code, log) ==
    [ok |-> FALSE, status |-> status, code |-> code, inst |-> <<>>, log |-> log]

\* get_object() on the queryset q: the lookup kwarg, then get_object_or_404
Lookup(r, st, q) ==
    IF ~q.ok
    THEN NoObject(404, q.code, q.log)
    ELSE IF "id" \notin DOMAIN r.kw
    THEN NoObject(500, "server_error", q.log)
    ELSE IF \A row \in Queryset(st, q) : row.id # r.kw.id
    THEN NoObject(404, "no_match", q.log \o <<Ev("read", q.db)>>)
    ELSE [ok |-> TRUE, status |-> 200, code |-> "ok",
          inst |-> <<CHOOSE row \in Queryset(st, q) : row.id = r.kw.id>>,
          log |-> q.log \o <<Ev("read", q.db)>>]

get_object(r, st) == Lookup(r, st, get_queryset(r))

\* on_delete=SET_NULL: the row o after the row it may refer to is deleted
SetNull(o, row) ==
    [o EXCEPT !.vals = [f \in DOMAIN o.vals |->
                           IF /\ f \in DOMAIN RefFields(o.model)
                              /\ RefFields(o.model)[f] = row.model
                              /\ o.vals[f] = row.id
                           THEN NullRef
                           ELSE o.vals[f]]]

\* Model.delete(): in the database the router names, removes the row and
\* sets the references to it to null
Deleted(st, row) ==
    {IF o.db = db_for_write(row.model) THEN SetNull(o, row) ELSE o :
        o \in {x \in st : ~(x.db = db_for_write(row.model) /\ x.model = row.model
                             /\ x.id = row.id)}}

\* get_serializer() whose exception surfaces as a server error
Built_unhandled(m, inst, log, st) ==
    IF ~m.ok
    THEN Done(Fault(500, m.code, log \o m.log), st)
    ELSE Cont(m.model, inst, log \o m.log, st)

\* the serializer is instantiated unless get_serializer() raised
Built(m, inst, log, st) ==
    IF ~m.ok
    THEN Done(Fault(404, m.code, log \o m.log), st)
    ELSE Cont(m.model, inst, log \o m.log, st)

\* get_serializer() after the action has its instance
Serializer(r, inst, log, st) == Built(get_serializer(r), inst, log, st)

\* list(): the page of the queryset q, then its serializer
ListOf(r, st, q) ==
    IF ~q.ok
    THEN Done(Fault(404, q.code, q.log), st)
    ELSE Serializer(r, OrderById(Queryset(st, q)), q.log \o <<Ev("read", q.db)>>, st)

\* destroy() that answers 204 when there is no such object
DestroyOf_lenient(st, o) ==
    IF ~o.ok
    THEN Done(Fault(IF o.code = "no_match" THEN 204 ELSE o.status, o.code, o.log), st)
    ELSE Done(Fault(204, "ok",
                    o.log \o <<Ev("write", db_for_write(o.inst[1].model))>>),
              {x \in st : ~(x.db = db_for_write(o.inst[1].model)
                            /\ x.model = o.inst[1].model /\ x.id = o.inst[1].id)})

\* destroy(): perform_destroy() on the object o
DestroyOf(st, o) ==
    IF ~o.ok
    THEN Done(Fault(o.status, o.code, o.log), st)
    ELSE Done(Fault(204, "ok",
                    o.log \o <<Ev("write", db_for_write(o.inst[1].model))>>),
              Deleted(st, o.inst[1]))

\* retrieve(), update(), partial_update(): the serializer of the object o
DetailOf(r, st, o) ==
    IF ~o.ok
    THEN Done(Fault(o.status, o.code, o.log), st)
    ELSE Serializer(r, o.inst, o.log, st)

Begin(r, st) ==
    IF initial(r) # {}
    THEN Done(Response(400, "invalid", initial(r), <<>>, <<>>), st)
    ELSE CASE r.op = "create" -> Serializer(r, <<>>, <<>>, st)
           [] r.op = "list" -> ListOf(r, st, get_queryset(r))
           [] r.op = "destroy" -> DestroyOf(st, get_object(r, st))
           [] OTHER -> DetailOf(r, st, get_object(r, st))

Outcome(rsp, st, nid) == [resp |-> rsp, store |-> st, nextId |-> nid]

\* the reads of the unique validators
ValidatorLog(fm, data) ==
    IF DOMAIN data \cap UniqueFields(fm) # {}
    THEN <<Ev("read", db_for_write(fm))>>
    ELSE <<>>

\* the lookups of the related fields, in the serializer's database
RefLog(fm, data, database) ==
    IF \E f \in DOMAIN data \cap DOMAIN RefFields(fm) : data[f] \in DOMAIN IntOf
    THEN <<Ev("read", database)>>
    ELSE <<>>

\* perform_create() / perform_update() answered w: the response
Stored(r, fm, st, nid, log, w) ==
    IF ~w.ok
    THEN Outcome(Fault(500, "server_error", log \o w.log), st, nid)
    ELSE IF \E row \in w.rows : ~Representable(row, fm)
    THEN Outcome(Fault(500, "server_error", log \o w.log),
                 Saved(st, CHOOSE row \in w.rows : TRUE),
                 IF r.op = "create" THEN nid + 1 ELSE nid)
    ELSE Outcome(Response(IF r.op = "create" THEN 201 ELSE 200, "ok", {},
                          <<to_representation(CHOOSE row \in w.rows : TRUE, fm)>>,
                          log \o w.log),
                 Saved(st, CHOOSE row \in w.rows : TRUE),
                 IF r.op = "create" THEN nid + 1 ELSE nid)

\* is_valid(raise_exception=True) answered v: 400, or save()
Validated(r, a, fm, meta, st, nid, v) ==
    IF v.errors # {}
    THEN Outcome(Response(400, "invalid", v.errors, <<>>,
                          a.log \o ValidatorLog(fm, r.data) \o RefLog(fm, r.data, r.db)),
                 st, nid)
    ELSE Stored(r, fm, st, nid,
                a.log \o ValidatorLog(fm, r.data) \o RefLog(fm, r.data, r.db),
                IF r.op = "create"
                THEN create(meta, r.db, v.validated, nid)
                ELSE update(a.inst[1], v.validated, r.db))

\* create(), update(), partial_update() once the serializer is built
Write(r, a, fm, meta, st, nid) ==
    Validated(r, a, fm, meta, st, nid,
              to_internal_value(fm, r.data, r.op = "partial_update", a.inst, st,
                                r.db))

\* the rest of the action: fm is the model the serializer's fields were built
\* from, meta is Meta.model when create() reads it
Finish(r, a, fm, meta, st, nid) ==
    IF r.op \in {"list", "retrieve"}
    THEN IF \A i \in DOMAIN a.inst : Representable(a.inst[i], fm)
         THEN Outcome(Response(200, "ok", {},
                               [i \in DOMAIN a.inst |-> to_representation(a.inst[i], fm)],
                               a.log),
                      st, nid)
         ELSE Outcome(Fault(500, "server_error", a.log), st, nid)
    ELSE Write(r, a, fm, meta, st, nid)

Handled(o, meta) ==
    [resp |-> o.resp, store |-> o.store, nextId |-> o.nextId, meta |-> meta]

Continue(r, nid, meta, a) ==
    IF a.fin
    THEN Handled(Outcome(a.resp, a.store, nid), meta)
    ELSE Handled(Finish(r, a, a.model, a.model, a.store, nid), a.model)

\* a request handled without interleaving: Meta.model is read back as written
Handle(r, st, nid, meta) == Continue(r, nid, meta, Begin(r, st))

-----------------------------------------------------------------------------
(* Spec: requests served one at a time by worker 1. *)

\* primary keys that requests name
Ids == 1 .. MaxId

Init ==
    /\ store = {}
    /\ nextId = 1
    /\ down \in Outages
    /\ MetaModel = NULL
    /\ req = [w \in Workers |-> NoReq]
    /\ resp = [w \in Workers |-> NoResp]
    /\ pc = [w \in Workers |-> "idle"]
    /\ loc = [w \in Workers |-> NoLoc]

\* worker w answers the request r with h
Answer(w, r, h) ==
    /\ pc[w] = "idle"
    /\ h.nextId <= MaxId + 1
    /\ store' = h.store
    /\ nextId' = h.nextId
    /\ MetaModel' = h.meta
    /\ req' = [req EXCEPT ![w] = r]
    /\ resp' = [resp EXCEPT ![w] = h.resp]
    /\ pc' = [pc EXCEPT ![w] = "done"]
    /\ UNCHANGED <<down, loc>>

\* the request r is received and answered
Serve(r) == Answer(1, r, Handle(r, store, nextId, MetaModel))

\* the response is returned and the request's view, serializer and context
\* are discarded
Reply(w) ==
    /\ pc[w] = "done"
    /\ pc' = [pc EXCEPT ![w] = "idle"]
    /\ req' = [req EXCEPT ![w] = NoReq]
    /\ resp' = [resp EXCEPT ![w] = NoResp]
    /\ loc' = [loc EXCEPT ![w] = NoLoc]
    /\ UNCHANGED <<store, nextId, down, MetaModel>>

List ==
    /\ pc[1] = "idle"
    /\ \E db \in DbParams, table \in TableParams :
            Serve(Request("list", db, table, NoKwargs, NoData))

Retrieve ==
    /\ pc[1] = "idle"
    /\ \E db \in DbParams, table \in TableParams, id \in Ids :
            Serve(Request("retrieve", db, table, [id |-> id], NoData))

Create ==
    /\ pc[1] = "idle"
    /\ \E db \in DbParams, table \in TableParams, data \in Payloads :
            Serve(Request("create", db, table, NoKwargs, data))

Update ==
    /\ pc[1] = "idle"
    /\ \E db \in DbParams, table \in TableParams, id \in Ids, data \in Payloads :
            Serve(Request("update", db, table, [id |-> id], data))

PartialUpdate ==
    /\ pc[1] = "idle"
    /\ \E db \in DbParams, table \in TableParams, id \in Ids, data \in Payloads :
            Serve(Request("partial_update", db, table, [id |-> id], data))

Destroy ==
    /\ pc[1] = "idle"
    /\ \E db \in DbParams, table \in TableParams, id \in Ids :
            Serve(Request("destroy", db, table, [id |-> id], NoData))

Respond == Reply(1)

Next ==
    List \/ Retrieve \/ Create \/ Update \/ PartialUpdate \/ Destroy \/ Respond

Spec == Init /\ [][Next]_vars

-----------------------------------------------------------------------------
(* SpecConc: two worker threads. DynamicModelSerializer.__init__ assigns    *)
(* the class attribute Meta.model; the fields are built from Meta.model     *)
(* afterwards, and create() reads it once more. The threads interleave      *)
(* between these steps.                                                     *)

\* the requests the two threads handle
ConcRequests ==
    { Request("create", "db3", "Genre", NoKwargs, [name |-> "a", age |-> "1"]),
      Request("create", "db2", "animal", NoKwargs, [name |-> "a", age |-> "1"]),
      Request("create", "db2", "animal", NoKwargs,
              [name |-> "a", age |-> "1", email |-> "a"]),
      Request("list", "default", "user", NoKwargs, NoData),
      Request("list", "db2", "animal", NoKwargs, NoData),
      Request("retrieve", "db3", "Genre", [id |-> 1], NoData),
      Request("update", "db2", "animal", [id |-> 1], [name |-> "b ", age |-> "2"]) }

\* creates that have begun and not yet saved
PendingCreates ==
    Cardinality({w \in Workers : pc[w] \in {"built", "ready"} /\ req[w].op = "create"})

\* worker w has run the action of r up to the serializer's constructor: a
\* is the response, or the model that __init__ assigns to Meta.model
Begun(w, r, a) ==
    /\ req' = [req EXCEPT ![w] = r]
    /\ store' = a.store
    /\ IF a.fin
       THEN /\ resp' = [resp EXCEPT ![w] = a.resp]
            /\ pc' = [pc EXCEPT ![w] = "done"]
            /\ UNCHANGED <<MetaModel, loc>>
       ELSE /\ MetaModel' = a.model
            /\ loc' = [loc EXCEPT ![w] = [model |-> a.model, inst |-> a.inst,
                                           log |-> a.log, fm |-> NULL]]
            /\ pc' = [pc EXCEPT ![w] = "built"]
            /\ UNCHANGED resp
    /\ UNCHANGED <<nextId, down>>

\* a thread receives a request and runs it up to self.Meta.model = model
CStart(w) ==
    /\ pc[w] = "idle"
    /\ \E r \in ConcRequests :
          /\ r.op = "create" => nextId + PendingCreates <= MaxId
          /\ Begun(w, r, Begin(r, store))

\* self.fields: get_fields() reads Meta.model and builds the fields from it
CFields(w) ==
    /\ pc[w] = "built"
    /\ loc' = [loc EXCEPT ![w].fm = MetaModel]
    /\ pc' = [pc EXCEPT ![w] = "ready"]
    /\ UNCHANGED <<store, nextId, down, MetaModel, req, resp>>

\* worker w ends its request with the outcome o
Ended(w, o) ==
    /\ store' = o.store
    /\ nextId' = o.nextId
    /\ resp' = [resp EXCEPT ![w] = o.resp]
    /\ pc' = [pc EXCEPT ![w] = "done"]
    /\ UNCHANGED <<down, MetaModel, req, loc>>

\* is_valid(), save() and serializer.data, with the fields built by CFields
\* and Meta.model as it is now
CFinish(w) ==
    /\ pc[w] = "ready"
    /\ Ended(w, Finish(req[w], loc[w], loc[w].fm, MetaModel, store, nextId))

NextConc ==
    \E w \in Workers : CStart(w) \/ CFields(w) \/ CFinish(w) \/ Reply(w)

SpecConc == Init /\ [][NextConc]_vars

-----------------------------------------------------------------------------
(* SpecUrls: requests that enter through apps/core/urls.py. A URL is the    *)
(* path /{database}/{entity}/ or /{database}/{entity}/{id}/ and the query   *)
(* parameters db and table, absent or naming what the path names.           *)

\* the last path segment: a primary key in UUID form (hex digits and
\* hyphens), or a run of decimal digits
UuidSeg(n) == [form |-> "uuid", n |-> n]

DigitSeg(n) == [form |-> "digits", n |-> n]

\* a path: seg is <<>> for the collection, <<segment>> for one record
Path(db, model, seg) == [db |-> db, model |-> model, seg |-> seg]

\* the int path converter matches [0-9]+ only
IntConverter(seg) == seg.form = "digits"

NoRoute == [view |-> NULL, kwargs |-> NoKwargs]

\* urlpatterns: the view a path resolves to and the kwargs it is called with
urlpatterns(path) ==
    IF path.seg = <<>>
    THEN [view |-> "dynamic_list",
          kwargs |-> [db_name |-> path.db, model_name |-> path.model]]
    ELSE IF IntConverter(path.seg[1])
    THEN [view |-> "dynamic_detail",
          kwargs |-> [db_name |-> path.db, model_name |-> path.model,
                      pk |-> path.seg[1].n]]
    ELSE NoRoute

\* as_view({...}) of dynamic_list
dynamic_list == [GET |-> "list", POST |-> "create"]

\* as_view({...}) of dynamic_detail
dynamic_detail ==
    [GET |-> "retrieve", PUT |-> "update", PATCH |-> "partial_update",
     DELETE |-> "destroy"]

\* the action a view maps an HTTP method to, or NULL
ActionOf(view, method) ==
    CASE view = "dynamic_list" /\ method \in DOMAIN dynamic_list -> dynamic_list[method]
      [] view = "dynamic_detail" -> dynamic_detail[method]
      [] OTHER -> NULL

\* the request as the view set receives it, with the URL it came from
UrlRequest(method, path, q, data, m) ==
    [op |-> ActionOf(m.view, method), db |-> q.db, table |-> q.table,
     kw |-> m.kwargs, data |-> data, method |-> method, path |-> path]

\* the resolver answers 404 when no pattern matches; the view runs initial()
\* and answers 405 when it maps no action to the method; otherwise the view
\* set handles the request
Dispatch(method, path, q, data, m) ==
    IF m.view = NULL
    THEN Handled(Outcome(Fault(404, "no_route", <<>>), store, nextId), MetaModel)
    ELSE IF ActionOf(m.view, method) = NULL
    THEN Handled(Outcome(IF initial(q) # {}
                         THEN Response(400, "invalid", initial(q), <<>>, <<>>)
                         ELSE Fault(405, "method_not_allowed", <<>>),
                         store, nextId),
                 MetaModel)
    ELSE Handle(Request(ActionOf(m.view, method), q.db, q.table, m.kwargs, data),
                store, nextId, MetaModel)

UrlServe(method, path, q, data) ==
    Answer(1, UrlRequest(method, path, q, data, urlpatterns(path)),
           Dispatch(method, path, q, data, urlpatterns(path)))

\* databases, entities and bodies of the URLs requested
UrlDbs == {"default", "db2"}

UrlTables == {"animal", "user"}

UrlPayloads ==
    { [name |-> "a", age |-> "1"],
      [age |-> "2"],
      [username |-> "a", password |-> "a", email |-> "a@x"] }

\* the query string: absent, or db and table as the path names them
Queries(path) == {[db |-> "", table |-> ""], [db |-> path.db, table |-> path.model]}

CollectionPaths == {Path(db, t, <<>>) : db \in UrlDbs, t \in UrlTables}

DetailPaths ==
    {Path(db, t, <<seg>>) : db \in UrlDbs, t \in UrlTables,
                            seg \in {UuidSeg(n) : n \in Ids} \cup {DigitSeg(n) : n \in Ids}}

\* GET /{database}/{entity}/
UrlList ==
    /\ pc[1] = "idle"
    /\ \E path \in CollectionPaths : \E q \in Queries(path) :
            UrlServe("GET", path, q, NoData)

\* POST /{database}/{entity}/
UrlCreate ==
    /\ pc[1] = "idle"
    /\ \E path \in CollectionPaths, data \in UrlPayloads : \E q \in Queries(path) :
            UrlServe("POST", path, q, data)

\* GET or DELETE /{database}/{entity}/{id}/, DELETE of the collection
UrlRead ==
    /\ pc[1] = "idle"
    /\ \E path \in DetailPaths \cup CollectionPaths, method \in {"GET", "DELETE"} :
          \E q \in Queries(path) :
            /\ path.seg = <<>> => method = "DELETE"
            /\ UrlServe(method, path, q, NoData)

\* PUT or PATCH /{database}/{entity}/{id}/
UrlWrite ==
    /\ pc[1] = "idle"
    /\ \E path \in DetailPaths, method \in {"PUT", "PATCH"}, data \in UrlPayloads :
          \E q \in Queries(path) :
            UrlServe(method, path, q, data)

NextUrls == UrlList \/ UrlCreate \/ UrlRead \/ UrlWrite \/ Respond

SpecUrls == Init /\ [][NextUrls]_vars

-----------------------------------------------------------------------------
(* SpecPages: list with the query parameters page and page_size. The        *)
(* paginator is configured in the project settings; it is modelled as the   *)
(* page-number paginator the view's schema documents (page from 1,          *)
(* page_size 10 by default and 100 at most, body count / results).          *)

\* records a (database, entity) can hold in SpecPages
MaxRows == 3

\* page_size when the parameter is absent (0 stands for absent)
default_page_size == 10

\* the largest page_size a request can ask for
max_page_size == 100

\* the page size in force for the parameter q
PageSize(q) ==
    IF q = 0 THEN default_page_size
    ELSE IF q > max_page_size THEN max_page_size
    ELSE q

\* number of pages of n records, P records a page
PageCount(n, P) == (n + P - 1) \div P

Min(a, b) == IF a < b THEN a ELSE b

\* the response body of a paginated list
PageResponse(status, code, count, results, log) ==
    [status |-> status, code |-> code, errors |-> {}, data |-> results,
     log |-> log, count |-> count]

\* paginate_queryset() and get_paginated_response() on the serialized rows:
\* page 1 of an empty list is valid, any other page out of range is 404
paginate(rows, page, P, log) ==
    IF page < 1 \/ (page > PageCount(Len(rows), P) /\ page # 1)
    THEN PageResponse(404, "invalid_page", 0, <<>>, log)
    ELSE PageResponse(200, "ok", Len(rows),
                      SubSeq(rows, (page - 1) * P + 1, Min(page * P, Len(rows))),
                      log)

\* list() answered h without pagination: the page of it
Paged(page, size, h) ==
    IF h.resp.status # 200
    THEN [h EXCEPT !.resp = PageResponse(h.resp.status, h.resp.code, 0, <<>>,
                                         h.resp.log)]
    ELSE [h EXCEPT !.resp = paginate(h.resp.data, page, PageSize(size), h.resp.log)]

\* a list request with its paging parameters
PageRequest(db, table, page, size) ==
    [op |-> "list", db |-> db, table |-> table, kw |-> NoKwargs, data |-> NoData,
     page |-> page, page_size |-> size]

\* the page a list request is answered with
PageOf(r, st, nid, meta) ==
    Paged(r.page, r.page_size,
          Handle(Request("list", r.db, r.table, NoKwargs, NoData), st, nid, meta))

\* the request r is answered with h, at most MaxRows records ever created
PAnswer(r, h) ==
    /\ pc[1] = "idle"
    /\ h.nextId <= MaxRows + 1
    /\ store' = h.store
    /\ nextId' = h.nextId
    /\ MetaModel' = h.meta
    /\ req' = [req EXCEPT ![1] = r]
    /\ resp' = [resp EXCEPT ![1] = h.resp]
    /\ pc' = [pc EXCEPT ![1] = "done"]
    /\ UNCHANGED <<down, loc>>

\* the (database, table) pairs listed
PageTargets == {<<"db2", "animal">>, <<"db3", "Genre">>, <<"db3", "animal">>}

\* page numbers and page sizes requested
PageNumbers == 1 .. (MaxRows + 1)

PageSizes == {0, 1, 2, max_page_size + 1}

PCreate ==
    /\ pc[1] = "idle"
    /\ \E t \in PageTargets :
          PAnswer(Request("create", t[1], t[2], NoKwargs, [name |-> "a", age |-> "1"]),
                  Handle(Request("create", t[1], t[2], NoKwargs,
                                 [name |-> "a", age |-> "1"]),
                         store, nextId, MetaModel))

PDestroy ==
    /\ pc[1] = "idle"
    /\ \E t \in PageTargets, id \in 1 .. MaxRows :
          PAnswer(Request("destroy", t[1], t[2], [id |-> id], NoData),
                  Handle(Request("destroy", t[1], t[2], [id |-> id], NoData),
                         store, nextId, MetaModel))

PList ==
    /\ pc[1] = "idle"
    /\ \E t \in PageTargets, page \in PageNumbers, size \in PageSizes :
          PAnswer(PageRequest(t[1], t[2], page, size),
                  PageOf(PageRequest(t[1], t[2], page, size), store, nextId, MetaModel))

NextPages == PCreate \/ PDestroy \/ PList \/ Respond

SpecPages == Init /\ [][NextPages]_vars

-----------------------------------------------------------------------------
(* SpecAuth: requests with a bearer credential. APIView.initial() runs      *)
(* authentication and the permission classes before the view's own checks;  *)
(* the authenticator is configured in the project settings and is modelled  *)
(* as bearer-token authentication: no header is an anonymous request, a     *)
(* token that does not verify fails authentication.                         *)

\* the Authorization header: absent, a token that does not verify, a token
\* of a user
Credentials == {"none", "invalid", "valid"}

\* permission classes that let every request through
permission_classes_AllowAny == {}

\* DynamicModelViewSet.permission_classes
permission_classes == {"IsAuthenticated"}

\* the authenticator: the user of the request, or a failure
authenticate(cred) ==
    CASE cred = "valid" -> "user"
      [] cred = "invalid" -> "failed"
      [] OTHER -> "anonymous"

\* perform_authentication() and check_permissions(): the request is refused
NotAuthenticated(cred) ==
    \/ authenticate(cred) = "failed"
    \/ "IsAuthenticated" \in permission_classes /\ authenticate(cred) # "user"

\* a request to the view set with its credential
Credentialed(r, cred) ==
    [op |-> r.op, db |-> r.db, table |-> r.table, kw |-> r.kw, data |-> r.data,
     cred |-> cred]

\* super().initial() first, then the rest of the request
Authenticated(r, cred) ==
    IF NotAuthenticated(cred)
    THEN Handled(Outcome(Fault(401, "not_authenticated", <<>>), store, nextId),
                 MetaModel)
    ELSE Handle(r, store, nextId, MetaModel)

AServe(r, cred) == Answer(1, Credentialed(r, cred), Authenticated(r, cred))

\* db and table parameters of the requests, "" when absent
AuthDbs == {"", "default", "db2", "invalid_db"}

AuthTables == {"", "animal", "user", "invalid_model"}

AuthPayloads == {[name |-> "a", age |-> "1"], [age |-> "2"]}

AList ==
    /\ pc[1] = "idle"
    /\ \E db \in AuthDbs, table \in AuthTables, cred \in Credentials :
            AServe(Request("list", db, table, NoKwargs, NoData), cred)

ACreate ==
    /\ pc[1] = "idle"
    /\ \E db \in AuthDbs, table \in AuthTables, data \in AuthPayloads,
          cred \in Credentials :
            AServe(Request("create", db, table, NoKwargs, data), cred)

ADetail ==
    /\ pc[1] = "idle"
    /\ \E db \in AuthDbs, table \in AuthTables, id \in Ids, cred \in Credentials,
          op \in {"retrieve", "destroy"} :
            AServe(Request(op, db, table, [id |-> id], NoData), cred)

AWrite ==
    /\ pc[1] = "idle"
    /\ \E db \in AuthDbs, table \in AuthTables, id \in Ids, data \in AuthPayloads,
          cred \in Credentials, op \in {"update", "partial_update"} :
            AServe(Request(op, db, table, [id |-> id], data), cred)

NextAuth == AList \/ ACreate \/ ADetail \/ AWrite \/ Respond

SpecAuth == Init /\ [][NextAuth]_vars

-----------------------------------------------------------------------------
(* SpecFaults: requests during which storage fails at one point although    *)
(* the checks before it passed. "resolve": connections[db].cursor() raises  *)
(* in get_model_from_path after the model was found (the cursor of the      *)
(* table probe is opened outside the try). "execute": the first query or    *)
(* write of the action raises (the table is gone, the connection is lost).  *)

Faults == {"none", "resolve", "execute"}

\* the request gets as far as the cursor of the table probe
FaultPoint(r) ==
    /\ r.db \in Databases
    /\ ProbeOk(r.db)
    /\ FindModel(r.table) # NULL

\* the checks done when cursor() raises
Raised(r) == <<Ev("connect", r.db), Ev("resolve", r.db)>>

\* get_queryset() when cursor() raises in get_model_from_path: the
\* exception is caught by "except Exception" and re-raised as NotFound
get_queryset_raising(r) ==
    IF FaultPoint(r)
    THEN QuerysetFailed("internal_error", Raised(r))
    ELSE get_queryset(r)

\* list(), retrieve(), update(), partial_update(), destroy() on the
\* queryset q
WithQueryset(r, st, q) ==
    CASE r.op = "list" -> ListOf(r, st, q)
      [] r.op = "destroy" -> DestroyOf(st, Lookup(r, st, q))
      [] OTHER -> DetailOf(r, st, Lookup(r, st, q))

\* the queryset q is evaluated and the query raises: nothing catches it
ExecuteRaises(r, st, q) ==
    IF ~q.ok
    THEN WithQueryset(r, st, q)
    ELSE Done(Fault(500, "server_error", q.log \o <<Ev("read", q.db)>>), st)

\* the action up to the serializer, with the fault f
FaultyBegin(r, f, st) ==
    IF r.op = "create"
    THEN IF f = "resolve" /\ FaultPoint(r)
         THEN Done(Fault(500, "server_error", Raised(r)), st)
         ELSE Begin(r, st)
    ELSE IF f = "resolve"
    THEN WithQueryset(r, st, get_queryset_raising(r))
    ELSE ExecuteRaises(r, st, get_queryset(r))

\* create() when the insert raises, after validation answered v
SaveRaises(r, a, st, nid, v) ==
    IF v.errors # {}
    THEN Validated(r, a, a.model, a.model, st, nid, v)
    ELSE Stored(r, a.model, st, nid,
                a.log \o ValidatorLog(a.model, r.data) \o RefLog(a.model, r.data, r.db),
                NotSaved(<<Ev("write", r.db)>>))

FaultyContinue(r, f, nid, meta, a) ==
    IF a.fin
    THEN Handled(Outcome(a.resp, a.store, nid), meta)
    ELSE IF r.op = "create" /\ f = "execute"
    THEN Handled(SaveRaises(r, a, a.store, nid,
                            to_internal_value(a.model, r.data, FALSE, a.inst, a.store,
                                              r.db)),
                 a.model)
    ELSE Handled(Finish(r, a, a.model, a.model, a.store, nid), a.model)

\* a request handled with the fault f
Faulty(r, f, st, nid, meta) ==
    IF f = "none" \/ initial(r) # {}
    THEN Handle(r, st, nid, meta)
    ELSE FaultyContinue(r, f, nid, meta, FaultyBegin(r, f, st))

\* a request and the fault that happens while it is handled
WithFault(r, f) ==
    [op |-> r.op, db |-> r.db, table |-> r.table, kw |-> r.kw, data |-> r.data,
     fault |-> f]

FServe(r, f) ==
    Answer(1, WithFault(r, f), Faulty(r, f, store, nextId, MetaModel))

FaultDbs == {"db2", "db3", "invalid_db"}

FaultTables == {"animal", "Genre", "invalid_model"}

FaultPayloads == {[name |-> "a", age |-> "1"], [age |-> "2"]}

FList ==
    /\ pc[1] = "idle"
    /\ \E db \in FaultDbs, table \in FaultTables, f \in Faults :
            FServe(Request("list", db, table, NoKwargs, NoData), f)

FCreate ==
    /\ pc[1] = "idle"
    /\ \E db \in FaultDbs, table \in FaultTables, data \in FaultPayloads, f \in Faults :
            FServe(Request("create", db, table, NoKwargs, data), f)

FDetail ==
    /\ pc[1] = "idle"
    /\ \E db \in FaultDbs, table \in FaultTables, id \in Ids, f \in Faults,
          op \in {"retrieve", "destroy"} :
            FServe(Request(op, db, table, [id |-> id], NoData), f)

FWrite ==
    /\ pc[1] = "idle"
    /\ \E db \in FaultDbs, table \in FaultTables, id \in Ids, data \in FaultPayloads,
          f \in Faults, op \in {"update", "partial_update"} :
            FServe(Request(op, db, table, [id |-> id], data), f)

NextFaults == FList \/ FCreate \/ FDetail \/ FWrite \/ Respond

SpecFaults == Init /\ [][NextFaults]_vars

-----------------------------------------------------------------------------
(* SpecRefs: genres and the movies that refer to them (Movie.genre is a     *)
(* foreign key to Genre, both of app3).                                     *)

RefDbs == {"db3", "db2"}

RefTables == {"Genre", "movie"}

RefPayloads ==
    { [name |-> "a"],
      [name |-> "b", id |-> "2"],
      [id |-> "2"],
      [title |-> "a", release_date |-> "2025-01-01", genre |-> "1"],
      [title |-> "a", release_date |-> "2025-01-01", genre |-> "2"],
      [title |-> "a", release_date |-> "2025-01-01", genre |-> NULL],
      [genre |-> "2"] }

RServe(r) == PAnswer(r, Handle(r, store, nextId, MetaModel))

RCreate ==
    /\ pc[1] = "idle"
    /\ \E db \in RefDbs, table \in RefTables, data \in RefPayloads :
            RServe(Request("create", db, table, NoKwargs, data))

RWrite ==
    /\ pc[1] = "idle"
    /\ \E db \in RefDbs, table \in RefTables, data \in RefPayloads,
          id \in 1 .. MaxRows, op \in {"update", "partial_update"} :
            RServe(Request(op, db, table, [id |-> id], data))

RRead ==
    /\ pc[1] = "idle"
    /\ \E db \in RefDbs, table \in RefTables, id \in 1 .. MaxRows,
          op \in {"retrieve", "destroy"} :
            RServe(Request(op, db, table, [id |-> id], NoData))

NextRefs == RCreate \/ RWrite \/ RRead \/ Respond

SpecRefs == Init /\ [][NextRefs]_vars

-----------------------------------------------------------------------------
(* The text of the error responses. *)

\* the internal detail in the message of an error: the NotFound messages of
\* get_model_from_path name the configured databases, quote the driver's
\* error and name the storage table; the messages get_queryset() raises
\* instead are fixed texts
Detail(code) ==
    CASE code = "db_not_configured" -> {"database_names"}
      [] code = "cannot_connect" -> {"driver_error"}
      [] code = "table_missing" -> {"table_name"}
      [] OTHER -> {}

-----------------------------------------------------------------------------
(* Vocabulary of the properties. *)

\* worker w has answered its request
Answered(w) == pc[w] = "done"

\* worker w answers its request in this step
Answers(w) == pc[w] = "idle" /\ pc'[w] = "done"

\* the registered entity a request names, or NULL
Entity(r) == FindModel(r.table)

\* an entity of the protected group
Protected(model) == AppLabel(model) \in auth_apps

\* the database an entity's records must live in
RequiredDb(model) ==
    IF Protected(model) THEN "default" ELSE route_app_labels[AppLabel(model)]

\* the positions of a trace that touch storage
StorageAccesses(log) == {i \in DOMAIN log : log[i].e \in StorageEvents}

\* the positions of a trace that read or write records
RecordAccesses(log) == {i \in DOMAIN log : log[i].e \in {"read", "write"}}

WriteOps == {"create", "update", "partial_update"}

DetailOps == {"retrieve", "update", "partial_update", "destroy"}

\* the request names a registered entity and a database other than the one
\* the entity requires
Mismatched(r) == Entity(r) # NULL /\ r.db # RequiredDb(Entity(r))

\* the row a detail request addresses is stored
Addressed(r, st) ==
    \E row \in st :
        row.db = r.db /\ row.model = Entity(r) /\ row.id = r.kw.id

-----------------------------------------------------------------------------
\* C1: a request that names a database other than the one its entity
\* requires is rejected, and no storage access of any kind (connectivity
\* probe, table query, read, write) is made for it.
C1_RejectedBeforeStorage ==
    \A w \in Workers :
        Answered(w) /\ Mismatched(req[w])
            => /\ resp[w].status >= 400
               /\ StorageAccesses(resp[w].log) = {}

\* C2: a request that names a configured non-default database for a
\* protected entity is answered 403 without any storage access.
C2_ProtectedForbidden ==
    \A w \in Workers :
        /\ Answered(w)
        /\ Entity(req[w]) # NULL
        /\ Protected(Entity(req[w]))
        /\ req[w].db \in Databases \ {"default"}
        => /\ resp[w].status = 403
           /\ StorageAccesses(resp[w].log) = {}

\* C3: every stored record lives in the database its entity requires: the
\* declared database, or default for a protected entity.
C3_RecordsInRequiredDb ==
    \A row \in store : row.db = RequiredDb(row.model)

\* C3 witness: records of a protected and of a routed entity are stored and
\* a create that named another database has just been turned down.
C3_Witness ==
    /\ Answered(1)
    /\ req[1].op = "create"
    /\ Mismatched(req[1])
    /\ req[1].db \in Databases
    /\ resp[1].status = 404
    /\ \E row \in store : Protected(row.model)
    /\ \E row \in store : ~Protected(row.model)

\* C4: a request for an unregistered entity is answered 404 and acquires no
\* database connection or cursor.
C4_UnknownEntityNoStorage ==
    \A w \in Workers :
        Answered(w) /\ Entity(req[w]) = NULL
            => /\ resp[w].status = 404
               /\ StorageAccesses(resp[w].log) = {}

\* the outcome of worker w's request when no other request interferes: the
\* fields and Meta.model are those of the entity the request resolved
Alone(w) ==
    Finish(req[w], loc[w], loc[w].model, loc[w].model, store, nextId)

\* C5: concurrent requests share no mutable state: whatever the
\* interleaving, each request validates, saves and serializes records of
\* the entity it resolved, with the outcome it has when run alone.
C5_NoSharedMutableState ==
    [][\A w \in Workers :
          pc[w] = "ready" /\ pc'[w] = "done"
              => /\ loc[w].fm = loc[w].model
                 /\ resp'[w] = Alone(w).resp
                 /\ store' = Alone(w).store
                 /\ nextId' = Alone(w).nextId]_vars

\* C6: in every request, each read or write of a record comes after the
\* entity was resolved and the access policy authorized the database.
C6_AuthorizedBeforeExecute ==
    \A w \in Workers :
        Answered(w) =>
            \A i \in RecordAccesses(resp[w].log) :
                /\ \E j \in 1 .. (i - 1) : resp[w].log[j].e = "resolve"
                /\ \E j \in 1 .. (i - 1) : resp[w].log[j].e = "authorize"

\* the fields of a body that fail validation: required and absent (create,
\* update), or not a numeral where the field is an integer
Offending(r) ==
    (IF r.op = "partial_update" THEN {} ELSE Required(Entity(r)) \ DOMAIN r.data)
        \cup {f \in DOMAIN r.data \cap Fields(Entity(r)) \cap IntFields :
                  r.data[f] \notin DOMAIN IntOf}

\* a write request that reaches validation: its entity lives in the database
\* it names, which is reachable, and the record it updates is stored
ReachesValidation(r, st) ==
    /\ r.op \in WriteOps
    /\ Entity(r) # NULL
    /\ r.db = RequiredDb(Entity(r))
    /\ r.db \notin down
    /\ (r.op = "create" \/ Addressed(r, st))

\* C7: a create, update or partial_update whose body fails validation is
\* answered 400 with the offending fields named, and the stored records and
\* the identifiers handed out are unchanged.
C7_InvalidPayloadRejected ==
    [][\A w \in Workers :
          /\ Answers(w)
          /\ ReachesValidation(req'[w], store)
          /\ Offending(req'[w]) # {}
          => /\ resp'[w].status = 400
             /\ Offending(req'[w]) \subseteq resp'[w].errors
             /\ store' = store
             /\ nextId' = nextId]_vars

\* C7 witness: a full update of a stored record was answered 400 naming the
\* integer field whose value is not a number.
C7_Witness ==
    /\ Answered(1)
    /\ req[1].op = "update"
    /\ Addressed(req[1], store)
    /\ resp[1].status = 400
    /\ resp[1].errors = {"age"}

\* the identifier was handed out by a create and its record is gone
DeletedId(id, st, nid) == id < nid /\ \A row \in st : row.id # id

\* the request addresses the API by path: no query string, or one that
\* names what the path names
PathAddressed(r) ==
    r.db = "" \/ (r.db = r.path.db /\ r.table = r.path.model)

\* the path names a registered entity and the reachable database it requires
AuthorizedPair(path) ==
    /\ FindModel(path.model) # NULL
    /\ path.db = RequiredDb(FindModel(path.model))
    /\ path.db \notin down

\* a body a create accepts
ValidNew(model, data, st) ==
    /\ Required(model) \subseteq DOMAIN data
    /\ \A f \in DOMAIN data \cap Fields(model) : ValidValue(f, data[f])
    /\ \A f \in DOMAIN data \cap UniqueFields(model) :
          \A row \in st : row.model = model => row.vals[f] # ToInternal(f, data[f])

\* the path names a record by its UUID
ByUuid(path) == path.seg # <<>> /\ path.seg[1].form = "uuid"

\* the records of the path's entity and database with the path's id
RowsAt(path, st) ==
    {row \in st : /\ row.db = path.db
                  /\ row.model = FindModel(path.model)
                  /\ row.id = path.seg[1].n}

\* C8: by path, on an authorized (database, entity): a valid create is
\* answered 201 with a generated id; retrieve of a stored id is answered 200
\* with the stored values; destroy of a stored id is answered 204 and removes
\* it; retrieve of a deleted id is answered 404.
C8_PathCrudScenario ==
    [][/\ Answers(1)
       /\ PathAddressed(req'[1])
       /\ AuthorizedPair(req'[1].path)
       => /\ /\ req'[1].method = "POST"
             /\ req'[1].path.seg = <<>>
             /\ ValidNew(FindModel(req'[1].path.model), req'[1].data, store)
             => /\ resp'[1].status = 201
                /\ Len(resp'[1].data) = 1
                /\ resp'[1].data[1].id = nextId
          /\ /\ req'[1].method = "GET"
             /\ ByUuid(req'[1].path)
             /\ RowsAt(req'[1].path, store) # {}
             => /\ resp'[1].status = 200
                /\ Len(resp'[1].data) = 1
                /\ \A row \in RowsAt(req'[1].path, store) :
                      resp'[1].data[1].vals = row.vals
          /\ /\ req'[1].method = "DELETE"
             /\ ByUuid(req'[1].path)
             /\ RowsAt(req'[1].path, store) # {}
             => /\ resp'[1].status = 204
                /\ RowsAt(req'[1].path, store') = {}
          /\ /\ req'[1].method = "GET"
             /\ ByUuid(req'[1].path)
             /\ DeletedId(req'[1].path.seg[1].n, store, nextId)
             => resp'[1].status = 404]_vars

\* C9: once a record is deleted, destroy, retrieve, update and
\* partial_update of its id are answered 404 and change nothing stored.
C9_DeletedStaysGone ==
    [][\A w \in Workers :
          /\ Answers(w)
          /\ req'[w].op \in DetailOps
          /\ DeletedId(req'[w].kw.id, store, nextId)
          => /\ resp'[w].status = 404
             /\ store' = store
             /\ nextId' = nextId]_vars

\* C9 witness: a destroy of a deleted id, on the database and entity the
\* record lived in, found no object.
C9_Witness ==
    /\ Answered(1)
    /\ req[1].op = "destroy"
    /\ DeletedId(req[1].kw.id, store, nextId)
    /\ ~Mismatched(req[1])
    /\ resp[1].status = 404
    /\ resp[1].code = "no_match"

\* a body a full update accepts: every required field present, integers
\* numeric, and unique values held by no other record
ValidBody(r, st) ==
    /\ Required(Entity(r)) \subseteq DOMAIN r.data
    /\ Offending(r) = {}
    /\ \A f \in DOMAIN r.data \cap UniqueFields(Entity(r)) :
          \A row \in st :
              row.model = Entity(r) /\ row.id # r.kw.id
                  => row.vals[f] # Strip(r.data[f])

\* the same request handled again answers h: same response, nothing changes
Unchanged(w, h) ==
    /\ h.resp.status = 200
    /\ h.resp.data = resp[w].data
    /\ h.store = store
    /\ h.nextId = nextId

\* C10: a full update of a stored record with a valid body is answered 200,
\* and the same update applied again is answered 200 with the same record
\* and leaves the stored state exactly as the first left it.
C10_UpdateIdempotent ==
    \A w \in Workers :
        /\ Answered(w)
        /\ req[w].op = "update"
        /\ Entity(req[w]) # NULL
        /\ Addressed(req[w], store)
        /\ ValidBody(req[w], store)
        => /\ resp[w].status = 200
           /\ Unchanged(w, Handle(req[w], store, nextId, MetaModel))

\* C10 witness: a full update changed a stored record and was answered 200.
C10_Witness ==
    /\ Answered(1)
    /\ req[1].op = "update"
    /\ resp[1].status = 200
    /\ \E row \in store :
          row.id = req[1].kw.id /\ row.model = "animal" /\ row.vals.age = 2
    /\ nextId > MaxId

\* the records a list request addresses
Listed(r, st) == {row \in st : row.db = r.db /\ row.model = Entity(r)}

\* the results of pages 1 .. k of the list request r, in page order
RECURSIVE AllPages(_, _)
AllPages(r, k) ==
    IF k = 0 THEN <<>>
    ELSE AllPages(r, k - 1)
            \o PageOf([r EXCEPT !.page = k], store, nextId, MetaModel).resp.data

\* the sequence of records is in ascending order of primary key
Ascending(recs) == \A i, j \in DOMAIN recs : i < j => recs[i].id < recs[j].id

C12_CredentialRequired ==
    [][/\ Answers(1)
       /\ "cred" \in DOMAIN req'[1]
       /\ req'[1].cred # "valid"
       => /\ resp'[1].status = 401
          /\ resp'[1].log = <<>>
          /\ store' = store
          /\ nextId' = nextId]_vars

\* C12 witness: a create with a valid body, on the entity's own database
\* and without a credential, was answered 401 while records are stored.
C12_Witness ==
    /\ Answered(1)
    /\ "cred" \in DOMAIN req[1]
    /\ req[1].cred = "none"
    /\ req[1].op = "create"
    /\ req[1].db = "db2"
    /\ req[1].table = "animal"
    /\ req[1].data = [name |-> "a", age |-> "1"]
    /\ resp[1].status = 401
    /\ store # {}

\* C13: on every operation, a request whose database parameter is not a
\* configured database is answered 404 and leaves all stored records
\* unchanged.
C13_UnknownDatabaseNotFound ==
    [][\A w \in Workers :
          /\ Answers(w)
          /\ req'[w].db # ""
          /\ req'[w].db \notin Databases
          => /\ resp'[w].status = 404
             /\ store' = store
             /\ nextId' = nextId]_vars

\* C13 witness: a create with a valid body on an unknown database was
\* answered 404 while records are stored.
C13_Witness ==
    /\ Answered(1)
    /\ req[1].op = "create"
    /\ req[1].db = "invalid_db"
    /\ req[1].table = "animal"
    /\ req[1].data = [name |-> "a", age |-> "1"]
    /\ resp[1].status = 404
    /\ resp[1].code = "db_not_configured"
    /\ store # {}

\* C14: no response body of any operation, on any failure path, contains
\* internal detail: no table name, no list of configured databases, no
\* driver error text.
C14_NoInternalDetail ==
    \A w \in Workers : Answered(w) => Detail(resp[w].code) = {}

\* C15: an unexpected internal fault raised while a request is handled is
\* surfaced as status 500, never under another status such as 404 and never
\* as a success.
C15_UnexpectedFaultIs500 ==
    /\ Answered(1)
    /\ "fault" \in DOMAIN req[1]
    /\ req[1].fault = "resolve"
    /\ initial(req[1]) = {}
    /\ FaultPoint(req[1])
    => resp[1].status = 500

\* the storage operation of a request with the fault "execute" is reached:
\* resolution and authorization succeeded, and a create has a valid body
ExecuteReached(r, st) ==
    /\ Entity(r) # NULL
    /\ r.db = RequiredDb(Entity(r))
    /\ r.db \notin down
    /\ r.op = "create" => ValidNew(Entity(r), r.data, st)

\* C16: a storage fault during the execution of the query or write, after
\* resolution and authorization succeeded, is answered 404 (table missing
\* in database), never as a raw storage fault.
C16_ExecuteFaultIsNotFound ==
    /\ Answered(1)
    /\ "fault" \in DOMAIN req[1]
    /\ req[1].fault = "execute"
    /\ ExecuteReached(req[1], store)
    => resp[1].status = 404

\* the required query parameters a request lacks (absent or empty)
Missing(r) == {p \in {"db", "table"} : r[p] = ""}

PatchValid(r, st) ==
    /\ Offending(r) = {}
    /\ \A f \in DOMAIN r.data \cap Fields(Entity(r)) : ValidValue(f, r.data[f])
    /\ \A f \in DOMAIN r.data \cap UniqueFields(Entity(r)) :
          \A row \in st :
              row.model = Entity(r) /\ row.id # r.kw.id
                  => row.vals[f] # ToInternal(f, r.data[f])

\* the record o after the fields supplied in the body were applied to it
Patched(o, r) ==
    [o EXCEPT !.vals = [f \in DOMAIN o.vals |->
                           IF f \in DOMAIN r.data THEN ToInternal(f, r.data[f])
                           ELSE o.vals[f]]]

\* C18: a partial_update whose body omits required fields is accepted,
\* applies only the supplied fields and leaves every other field and every
\* other record unchanged; an update whose body omits a required field is
\* answered 400 and changes nothing.
C18_PatchRelaxesRequired ==
    [][\A w \in Workers :
          /\ Answers(w)
          /\ req'[w].op \in {"update", "partial_update"}
          /\ Entity(req'[w]) # NULL
          /\ Addressed(req'[w], store)
          => /\ /\ req'[w].op = "partial_update"
                /\ PatchValid(req'[w], store)
                => /\ resp'[w].status = 200
                   /\ store' = {IF Addressed(req'[w], {o}) THEN Patched(o, req'[w])
                                ELSE o : o \in store}
             /\ /\ req'[w].op = "update"
                /\ Required(Entity(req'[w])) \ DOMAIN req'[w].data # {}
                => /\ resp'[w].status = 400
                   /\ store' = store]_vars

\* C18 witness: a partial update that supplied only the age changed the age
\* of a stored animal and kept its name.
C18_Witness ==
    /\ Answered(1)
    /\ req[1].op = "partial_update"
    /\ req[1].data = [age |-> "2"]
    /\ resp[1].status = 200
    /\ \E row \in store :
          /\ row.id = req[1].kw.id
          /\ row.model = "animal"
          /\ row.vals.name = "a"
          /\ row.vals.age = 2

\* the foreign-key fields of a body that carry an id
RefsIn(r) ==
    {f \in DOMAIN r.data \cap DOMAIN RefFields(Entity(r)) : r.data[f] \in DOMAIN IntOf}

\* the records of the target entity with the referenced id in the database
\* the request is bound to
Target(r, f, st) ==
    {row \in st : /\ row.db = r.db
                  /\ row.model = RefFields(Entity(r))[f]
                  /\ row.id = IntOf[r.data[f]]}

\* C19: on create, update and partial_update a foreign-key value is
\* accepted only if a record of the target entity with that id exists in
\* the database the request is bound to; a reference to an absent id is
\* answered 400 naming the field, and nothing is written.
C19_DanglingReferenceRejected ==
    [][/\ Answers(1)
       /\ req'[1].op \in WriteOps
       /\ Entity(req'[1]) # NULL
       => /\ /\ ReachesValidation(req'[1], store)
             /\ \E f \in RefsIn(req'[1]) : Target(req'[1], f, store) = {}
             => /\ resp'[1].status = 400
                /\ {f \in RefsIn(req'[1]) : Target(req'[1], f, store) = {}}
                      \subseteq resp'[1].errors
                /\ store' = store
                /\ nextId' = nextId
          /\ resp'[1].status \in {200, 201}
             => \A f \in RefsIn(req'[1]) : Target(req'[1], f, store) # {}]_vars

\* C19 witness: with a genre stored, a create of a movie that refers to an
\* id that is not a genre was answered 400 naming the field, and a movie
\* that refers to the genre is stored.
C19_Witness ==
    /\ Answered(1)
    /\ req[1].op = "create"
    /\ req[1].table = "movie"
    /\ req[1].db = "db3"
    /\ "genre" \in DOMAIN req[1].data
    /\ req[1].data.genre = "2"
    /\ resp[1].status = 400
    /\ resp[1].errors = {"genre"}
    /\ \E row \in store : row.model = "genre" /\ row.id = 1
    /\ \E row \in store : row.model = "movie" /\ row.vals.genre = 1

\* the positions of a trace that probe the connectivity of a database
Probes(log) == {i \in DOMAIN log : log[i].e = "connect"}

\* C20: unknown-database detection precedes any connectivity probe and
\* protected-group enforcement precedes any reachability check: a request
\* for an unknown database, or for a protected entity on a non-default
\* database, is decided without a single connectivity probe.
C20_DecidedBeforeProbe ==
    \A w \in Workers :
        /\ Answered(w)
        /\ \/ req[w].db \notin Databases
           \/ /\ Entity(req[w]) # NULL
              /\ Protected(Entity(req[w]))
              /\ req[w].db # "default"
        => /\ resp[w].status >= 400
           /\ Probes(resp[w].log) = {}

\* the databases a trace touches
Touched(log) == {log[i].db : i \in DOMAIN log}

\* the positions of a trace where the access policy authorized a database
Authorizations(log) == {i \in DOMAIN log : log[i].e = "authorize"}

\* C21: all storage operations of one request (probes, lookups, validator
\* reads, insert, save, delete) go to exactly one database, and the
\* database written to is the one the access policy returned.
C21_OneDatabasePerRequest ==
    \A w \in Workers :
        Answered(w) =>
            /\ Cardinality(Touched(resp[w].log)) <= 1
            /\ \A i \in Authorizations(resp[w].log) :
                  \A j \in RecordAccesses(resp[w].log) :
                      resp[w].log[j].db = resp[w].log[i].db

\* the primary keys stored: (database, entity, id)
Keys(st) == {<<o.db, o.model, o.id>> : o \in st}

\* C22: the id of a record is assigned at creation and never changes: an
\* "id" in the body of a create, update or partial_update is ignored; a create
\* stores its record under the fresh id it returns, and an update or partial
\* update leaves the stored primary keys as they were and returns the id it
\* was addressed with.
C22_IdAssignedOnce ==
    [][\A w \in Workers :
          Answers(w) =>
              /\ /\ req'[w].op = "create"
                 /\ resp'[w].status = 201
                 => /\ resp'[w].data[1].id = nextId
                    /\ Keys(store') =
                           Keys(store) \cup
                               {<<req'[w].db, Entity(req'[w]), nextId>>}
              /\ req'[w].op \in {"update", "partial_update"}
                 => /\ Keys(store') = Keys(store)
                    /\ resp'[w].status = 200
                       => resp'[w].data[1].id = req'[w].kw.id]_vars

\* C22 witness: a partial update whose body names the id 2 was accepted for
\* the genre 1, which is still stored as 1, and no genre 2 is stored.
C22_Witness ==
    /\ Answered(1)
    /\ req[1].op = "partial_update"
    /\ req[1].kw.id = 1
    /\ "id" \in DOMAIN req[1].data
    /\ req[1].data.id = "2"
    /\ resp[1].status = 200
    /\ resp[1].data[1].id = 1
    /\ <<"db3", "genre", 1>> \in Keys(store)
    /\ <<"db3", "genre", 2>> \notin Keys(store)

====
